---- MODULE Spec2Model ----
(***************************************************************************)
(* minigrep_hw: a grep-like filter over the Hyperscan engine               *)
(* (src/src/main.rs).  The model follows main() step by step: argument     *)
(* extraction, compile_database, alloc_scratch, the read/scan/print loop   *)
(* with the on_match callback, and the two release calls.  The engine is   *)
(* an external collaborator: its calls are recorded in `calls`, and its    *)
(* answers are nondeterministic where the engine may fail.                 *)
(***************************************************************************)
EXTENDS Integers, Sequences, FiniteSets, TLC

VARIABLES
    pc,          \* position of main: "main", "compile", "alloc", "loop",
                 \* "scan_line", "scanning", "teardown", "exited"
    args,        \* command-line arguments after the program name
    stdin,       \* the input stream, already split in lines (or read errors)
    pattern,     \* main's `pattern`
    database,    \* main's `database` : "null", "live", "freed"
    scratch,     \* main's `scratch`  : "null", "live", "freed"
    errStruct,   \* compile_database's `err` : [ptr, message]
    lineNo,      \* number of items taken from stdin.lock().lines()
    line,        \* main's `line`
    matched,     \* scan_line's `matched`, the callback context
    pending,     \* match events the engine has still to deliver in this hs_scan
    delivered,   \* match events delivered to on_match in this hs_scan
    cbRet,       \* what on_match returned last in this hs_scan
    scans,       \* history: one record per scan_line call that returned
    calls,       \* history: the engine functions called, in order
    stdout,      \* lines printed by println!
    stderr,      \* messages on the error stream
    exitStatus,  \* process exit status, -1 while running
    handles,     \* the pointers main holds: [database, scratch, scratchDb], 0 = null;
                 \* scratchDb is the database the scratch was allocated for
    engineArgs,  \* history: the pointers passed to each engine call after hs_compile
    lineLen,     \* line.len(), a usize as four 16-bit digits, lowest first
    bufLen,      \* the length passed to hs_scan, a u32 as two 16-bit digits
    prev         \* history: the pipeline runs that ended before this one

vars == <<pc, args, stdin, pattern, database, scratch, errStruct, lineNo, line,
          matched, pending, delivered, cbRet, scans, calls, stdout, stderr,
          exitStatus, handles, engineArgs, lineLen, bufLen, prev>>

(***************************************************************************)
(* Bounds of the model.                                                    *)
(***************************************************************************)
MaxLineLen == 2
MaxLines == 3
\* Lines per stream in the specifications with two runs or with fairness.
MaxLinesSmall == 2

(***************************************************************************)
(* Engine status codes.                                                    *)
(***************************************************************************)
HS_SUCCESS == 0
HS_SCAN_TERMINATED == -3
HS_NOMEM == -2
HS_COMPILER_ERROR == -4

(***************************************************************************)
(* Inputs.  A character is a one-letter string; "NUL" stands for the byte  *)
(* 0 and "[" opens a character class that is never closed.                 *)
(***************************************************************************)
LineChars == {"a", "b"}

RECURSIVE SeqsUpTo(_, _)
SeqsUpTo(S, n) ==
    IF n = 0 THEN {<<>>}
    ELSE LET shorter == SeqsUpTo(S, n - 1)
         IN  shorter \cup {Append(s, c) : s \in {t \in shorter : Len(t) = n - 1}, c \in S}

Lines == SeqsUpTo(LineChars, MaxLineLen)

\* One item of stdin.lock().lines(): Ok(text) or Err(io error).
ReadItems == {[ok |-> TRUE, text |-> l] : l \in Lines} \cup {[ok |-> FALSE, text |-> <<>>]}

Streams == SeqsUpTo(ReadItems, MaxLines)

Patterns == { <<"a">>, <<"a", "b">>, <<"[", "a">>, <<"a", "NUL", "b">> }

ArgLists == {<<>>} \cup {<<p>> : p \in Patterns}

NoErr == [ptr |-> "null", message |-> "null"]

\* What the engine may leave in *err when hs_compile fails.
CompileErrors ==
    { NoErr,
      [ptr |-> "live", message |-> "null"],
      [ptr |-> "live", message |-> "engine diagnostic"] }

Count(s, x) == Cardinality({i \in 1..Len(s) : s[i] = x})

(***************************************************************************)
(* compile_database                                                        *)
(***************************************************************************)
\* Variant: the pattern bytes are handed to the engine unchecked.
CStringNewUnchecked(p) == FALSE

\* CString::new(pattern): an error when the pattern holds a NUL byte.
CStringNewFails(p) == \E i \in 1..Len(p) : p[i] = "NUL"

\* hs_compile: the engine rejects an unterminated class, and may run out of
\* memory on any pattern.
EngineCompileResults(p) ==
    IF \E i \in 1..Len(p) : p[i] = "[" THEN {HS_COMPILER_ERROR}
    ELSE {HS_SUCCESS, HS_NOMEM}

\* The message compile_database extracts from the error structure.
CompileMessage(e) ==
    IF e.ptr = "freed" THEN {"engine diagnostic", "Unknown compile error", "garbage"}
    ELSE IF e.ptr # "null" /\ e.message # "null" THEN {e.message}
    ELSE {"Unknown compile error"}

\* hs_free_compile_error(err)
FreeCompileError(e) == [e EXCEPT !.ptr = IF e.ptr = "null" THEN "null" ELSE "freed"]

\* main returns Err(e): the runtime prints the error chain and exits with 1.
MainReturnsErr(ctx, msg) ==
    /\ stderr' = stderr \o ctx \o <<msg>>
    /\ exitStatus' = 1
    /\ pc' = "exited"

\* Variant: the error structure is freed before its message is read.
CompileFailureFreeFirst(rc) ==
    \E e \in CompileErrors, msg \in {"engine diagnostic", "Unknown compile error", "garbage"} :
        /\ msg \in CompileMessage(FreeCompileError(e))
        /\ errStruct' = FreeCompileError(e)
        /\ calls' = calls \o <<"hs_compile", "hs_free_compile_error">>
        /\ MainReturnsErr(<<"compile pattern", "Hyperscan compile error: ">>, msg)
        /\ UNCHANGED database
        /\ UNCHANGED handles

\* compile_database when hs_compile did not return HS_SUCCESS: read the
\* message, free the error structure, return Err.
CompileFailure(rc) ==
    \E e \in CompileErrors, msg \in {"engine diagnostic", "Unknown compile error", "garbage"} :
        /\ msg \in CompileMessage(e)
        /\ errStruct' = FreeCompileError(e)
        /\ calls' = calls \o <<"hs_compile", "hs_free_compile_error">>
        /\ MainReturnsErr(<<"compile pattern", "Hyperscan compile error: ">>, msg)
        /\ UNCHANGED database
        /\ UNCHANGED handles

CompileDatabase ==
    /\ pc = "compile"
    /\ IF CStringNewFails(pattern)
       THEN /\ MainReturnsErr(<<"compile pattern">>, "pattern contains interior NUL")
            /\ UNCHANGED <<database, errStruct, calls, handles>>
       ELSE \E rc \in EngineCompileResults(pattern) :
                IF rc # HS_SUCCESS
                THEN CompileFailure(rc)
                ELSE /\ database' = "live"
                     /\ handles' = [handles EXCEPT !.database = Len(prev) + 1]
                     /\ calls' = Append(calls, "hs_compile")
                     /\ pc' = "alloc"
                     /\ UNCHANGED <<errStruct, stderr, exitStatus>>
    /\ UNCHANGED <<args, stdin, pattern, scratch, lineNo, line, matched, pending,
                   delivered, cbRet, scans, stdout>>
    /\ UNCHANGED <<engineArgs, lineLen, bufLen, prev>>

(***************************************************************************)
(* main: argument extraction                                               *)
(***************************************************************************)
\* Variant: a missing argument falls back to a default pattern.
ParseArgsDefaultPattern ==
    /\ pc = "main"
    /\ pattern' = IF Len(args) = 0 THEN <<"a">> ELSE args[1]
    /\ pc' = "compile"
    /\ UNCHANGED <<stderr, exitStatus>>
    /\ UNCHANGED <<args, stdin, database, scratch, errStruct, lineNo, line, matched,
                   pending, delivered, cbRet, scans, calls, stdout>>
    /\ UNCHANGED <<handles, engineArgs, lineLen, bufLen, prev>>

\* env::args().nth(1): the usage message and exit(1), or the pattern.
ParseArgs ==
    /\ pc = "main"
    /\ IF Len(args) = 0
       THEN /\ stderr' = Append(stderr, "Usage")
            /\ exitStatus' = 1
            /\ pc' = "exited"
            /\ UNCHANGED pattern
       ELSE /\ pattern' = args[1]
            /\ pc' = "compile"
            /\ UNCHANGED <<stderr, exitStatus>>
    /\ UNCHANGED <<args, stdin, database, scratch, errStruct, lineNo, line, matched,
                   pending, delivered, cbRet, scans, calls, stdout>>
    /\ UNCHANGED <<handles, engineArgs, lineLen, bufLen, prev>>

(***************************************************************************)
(* alloc_scratch                                                           *)
(***************************************************************************)
\* hs_alloc_scratch: success, or a failure such as resource exhaustion.
EngineAllocResults == {HS_SUCCESS, HS_NOMEM}

AllocScratch ==
    /\ pc = "alloc"
    /\ calls' = Append(calls, "hs_alloc_scratch")
    /\ engineArgs' = Append(engineArgs, [fn |-> "hs_alloc_scratch",
                                         db |-> handles.database, scratch |-> 0])
    /\ \E rc \in EngineAllocResults :
           IF rc # HS_SUCCESS
           THEN /\ MainReturnsErr(<<"alloc scratch">>, "Failed: Unable to allocate Hyperscan scratch")
                /\ UNCHANGED <<scratch, handles>>
           ELSE /\ scratch' = "live"
                /\ handles' = [handles EXCEPT !.scratch = Len(prev) + 1,
                                              !.scratchDb = handles.database]
                /\ pc' = "loop"
                /\ UNCHANGED <<stderr, exitStatus>>
    /\ UNCHANGED <<args, stdin, pattern, database, errStruct, lineNo, line, matched,
                   pending, delivered, cbRet, scans, stdout>>
    /\ UNCHANGED <<lineLen, bufLen, prev>>

(***************************************************************************)
(* main: the loop over stdin.lock().lines()                                *)
(***************************************************************************)
\* A length below 2^16 as a usize: four 16-bit digits, lowest first.
UsizeOf(n) == <<n, 0, 0, 0>>

ReadLine ==
    /\ pc = "loop"
    /\ IF lineNo = Len(stdin)
       THEN /\ pc' = "teardown"
            /\ UNCHANGED <<lineNo, line, lineLen, stderr, exitStatus>>
       ELSE /\ lineNo' = lineNo + 1
            /\ IF stdin[lineNo + 1].ok
               THEN /\ line' = stdin[lineNo + 1].text
                    /\ lineLen' = UsizeOf(Len(stdin[lineNo + 1].text))
                    /\ pc' = "scan_line"
                    /\ UNCHANGED <<stderr, exitStatus>>
               ELSE /\ MainReturnsErr(<<>>, "io error")
                    /\ UNCHANGED <<line, lineLen>>
    /\ UNCHANGED <<args, stdin, pattern, database, scratch, errStruct, matched,
                   pending, delivered, cbRet, scans, calls, stdout>>
    /\ UNCHANGED <<handles, engineArgs, bufLen, prev>>

(***************************************************************************)
(* scan_line and on_match                                                  *)
(***************************************************************************)
\* The end offsets at which the engine finds the (literal) pattern in buf.
MatchEnds(p, buf) ==
    {to \in 1..Len(buf) : to >= Len(p) /\ SubSeq(buf, to - Len(p) + 1, to) = p}

\* The match events of one hs_scan, in the order the engine reports them.
RECURSIVE EventsUpTo(_, _, _)
EventsUpTo(p, buf, n) ==
    IF n = 0 THEN <<>>
    ELSE IF n \in MatchEnds(p, buf) THEN Append(EventsUpTo(p, buf, n - 1), n)
    ELSE EventsUpTo(p, buf, n - 1)

EngineMatchEvents(p, buf) == EventsUpTo(p, buf, Len(buf))

\* Status codes with which hs_scan may fail on its own.
EngineScanErrors == {HS_NOMEM}

\* Variant: `matched` keeps the value the previous call left in it.
StaleMatched == matched

\* let mut matched: bool = false
FreshMatched == FALSE

\* line.len() as u32: the low 32 bits of the usize.
AsU32(n) == <<n[1], n[2]>>

\* Variant: the workspace is provisioned again for every line.
ScanLineBeginReprovision ==
    /\ pc = "scan_line"
    /\ matched' = FreshMatched
    /\ bufLen' = AsU32(lineLen)
    /\ calls' = calls \o <<"hs_alloc_scratch", "hs_scan">>
    /\ handles' = [handles EXCEPT !.scratch = handles.scratch + 1]
    /\ engineArgs' = engineArgs \o
           << [fn |-> "hs_alloc_scratch", db |-> handles.database, scratch |-> 0],
              [fn |-> "hs_scan", db |-> handles.database, scratch |-> handles.scratch + 1] >>
    /\ pending' = EngineMatchEvents(pattern, line)
    /\ delivered' = 0
    /\ cbRet' = 0
    /\ pc' = "scanning"
    /\ UNCHANGED <<args, stdin, pattern, database, scratch, errStruct, lineNo, line,
                   scans, stdout, stderr, exitStatus>>
    /\ UNCHANGED <<lineLen, prev>>

\* scan_line up to the hs_scan call: a fresh `matched`, then the engine starts
\* on (database, line pointer, line.len() as u32, scratch, on_match, &matched).
ScanLineBegin ==
    /\ pc = "scan_line"
    /\ matched' = FreshMatched
    /\ bufLen' = AsU32(lineLen)
    /\ calls' = Append(calls, "hs_scan")
    /\ engineArgs' = Append(engineArgs, [fn |-> "hs_scan", db |-> handles.database,
                                         scratch |-> handles.scratch])
    /\ pending' = EngineMatchEvents(pattern, line)
    /\ delivered' = 0
    /\ cbRet' = 0
    /\ pc' = "scanning"
    /\ UNCHANGED <<args, stdin, pattern, database, scratch, errStruct, lineNo, line,
                   scans, stdout, stderr, exitStatus>>
    /\ UNCHANGED <<handles, lineLen, prev>>

\* Variants: a callback that flips the flag, and one that halts the scan.
OnMatchToggle(m) == ~m
OnMatchReturnStop == CHOOSE r \in {1} : r # 0

\* on_match: what it stores through ctx, and what it returns.
OnMatchStore(m) == TRUE
OnMatchReturn == 0

\* The engine delivers its next match event; it stops delivering once the
\* callback has returned non-zero.
OnMatch ==
    /\ pc = "scanning"
    /\ pending # <<>>
    /\ cbRet = 0
    /\ matched' = OnMatchStore(matched)
    /\ cbRet' = OnMatchReturn
    /\ delivered' = delivered + 1
    /\ pending' = Tail(pending)
    /\ UNCHANGED <<pc, args, stdin, pattern, database, scratch, errStruct, lineNo,
                   line, scans, calls, stdout, stderr, exitStatus>>
    /\ UNCHANGED <<handles, engineArgs, lineLen, bufLen, prev>>

\* The statuses hs_scan may return in the current state.
EngineScanResults ==
    IF cbRet # 0 THEN {HS_SCAN_TERMINATED}
    ELSE IF pending = <<>> THEN {HS_SUCCESS} \cup EngineScanErrors
    ELSE EngineScanErrors

\* Variant: the line is put in front of the output.
PrintLineFirst(out, l) == <<l>> \o out

\* println!("{line}")
PrintLine(out, l) == Append(out, l)

\* Variant: a failed scan skips the line and the loop goes on.
ScanErrorSkipLine ==
    /\ pc' = "loop"
    /\ UNCHANGED <<stdout, stderr, exitStatus>>

\* What the loop does when scan_line returned Err: `?` leaves main.
ScanErrorPolicy ==
    /\ MainReturnsErr(<<>>, "hs_scan failed")
    /\ UNCHANGED stdout

\* hs_scan returns; scan_line returns Ok(matched) or Err; main prints the line.
ScanReturn ==
    /\ pc = "scanning"
    /\ \E rc \in EngineScanResults :
           /\ scans' = Append(scans, [line |-> line, delivered |-> delivered, rc |-> rc,
                                      ret |-> IF rc # HS_SUCCESS THEN "err"
                                              ELSE IF matched THEN "true" ELSE "false"])
           /\ IF rc # HS_SUCCESS
              THEN ScanErrorPolicy
              ELSE /\ stdout' = IF matched THEN PrintLine(stdout, line) ELSE stdout
                   /\ pc' = "loop"
                   /\ UNCHANGED <<stderr, exitStatus>>
    /\ pending' = <<>>
    /\ UNCHANGED <<args, stdin, pattern, database, scratch, errStruct, lineNo, line,
                   matched, delivered, cbRet, calls>>
    /\ UNCHANGED <<handles, engineArgs, lineLen, bufLen, prev>>

(***************************************************************************)
(* main: release of the engine resources, and the normal return            *)
(***************************************************************************)
\* Variant: the database is released before the scratch.
TeardownDatabaseFirst ==
    /\ pc = "teardown"
    /\ \/ /\ database = "live"
          /\ database' = "freed"
          /\ calls' = Append(calls, "hs_free_database")
          /\ engineArgs' = Append(engineArgs, [fn |-> "hs_free_database",
                                               db |-> handles.database, scratch |-> 0])
          /\ UNCHANGED <<pc, scratch, exitStatus>>
       \/ /\ database = "freed"
          /\ scratch' = "freed"
          /\ calls' = Append(calls, "hs_free_scratch")
          /\ engineArgs' = Append(engineArgs, [fn |-> "hs_free_scratch",
                                               db |-> 0, scratch |-> handles.scratch])
          /\ exitStatus' = 0
          /\ pc' = "exited"
          /\ UNCHANGED database
    /\ UNCHANGED <<args, stdin, pattern, errStruct, lineNo, line, matched, pending,
                   delivered, cbRet, scans, stdout, stderr>>
    /\ UNCHANGED <<handles, lineLen, bufLen, prev>>

\* Variant: the second release call names the scratch again.
TeardownScratchTwice ==
    /\ pc = "teardown"
    /\ \/ /\ scratch = "live"
          /\ scratch' = "freed"
          /\ calls' = Append(calls, "hs_free_scratch")
          /\ engineArgs' = Append(engineArgs, [fn |-> "hs_free_scratch",
                                               db |-> 0, scratch |-> handles.scratch])
          /\ UNCHANGED <<pc, database, exitStatus>>
       \/ /\ scratch = "freed"
          /\ calls' = Append(calls, "hs_free_scratch")
          /\ engineArgs' = Append(engineArgs, [fn |-> "hs_free_scratch",
                                               db |-> 0, scratch |-> handles.scratch])
          /\ exitStatus' = 0
          /\ pc' = "exited"
          /\ UNCHANGED <<scratch, database>>
    /\ UNCHANGED <<args, stdin, pattern, errStruct, lineNo, line, matched, pending,
                   delivered, cbRet, scans, stdout, stderr>>
    /\ UNCHANGED <<handles, lineLen, bufLen, prev>>

\* hs_free_scratch(scratch); hs_free_database(database); Ok(())
Teardown ==
    /\ pc = "teardown"
    /\ \/ /\ scratch = "live"
          /\ scratch' = "freed"
          /\ calls' = Append(calls, "hs_free_scratch")
          /\ engineArgs' = Append(engineArgs, [fn |-> "hs_free_scratch",
                                               db |-> 0, scratch |-> handles.scratch])
          /\ UNCHANGED <<pc, database, exitStatus>>
       \/ /\ scratch = "freed"
          /\ database' = "freed"
          /\ calls' = Append(calls, "hs_free_database")
          /\ engineArgs' = Append(engineArgs, [fn |-> "hs_free_database",
                                               db |-> handles.database, scratch |-> 0])
          /\ exitStatus' = 0
          /\ pc' = "exited"
          /\ UNCHANGED scratch
    /\ UNCHANGED <<args, stdin, pattern, errStruct, lineNo, line, matched, pending,
                   delivered, cbRet, scans, stdout, stderr>>
    /\ UNCHANGED <<handles, lineLen, bufLen, prev>>

Init ==
    /\ pc = "main"
    /\ args \in ArgLists
    /\ stdin \in Streams
    /\ pattern = <<>>
    /\ database = "null"
    /\ scratch = "null"
    /\ errStruct = NoErr
    /\ lineNo = 0
    /\ line = <<>>
    /\ matched = FALSE
    /\ pending = <<>>
    /\ delivered = 0
    /\ cbRet = 0
    /\ scans = <<>>
    /\ calls = <<>>
    /\ stdout = <<>>
    /\ stderr = <<>>
    /\ exitStatus = -1
    /\ handles = [database |-> 0, scratch |-> 0, scratchDb |-> 0]
    /\ engineArgs = <<>>
    /\ lineLen = UsizeOf(0)
    /\ bufLen = <<0, 0>>
    /\ prev = <<>>

Next ==
    \/ ParseArgs
    \/ CompileDatabase
    \/ AllocScratch
    \/ ReadLine
    \/ ScanLineBegin
    \/ OnMatch
    \/ ScanReturn
    \/ Teardown

Spec == Init /\ [][Next]_vars

(***************************************************************************)
(* Termination: main is one sequential thread, every engine call and every *)
(* read of a finite stream returns, so a step that can be taken is taken.  *)
(***************************************************************************)
InitSmall == Init /\ Len(stdin) <= MaxLinesSmall

SpecFair == InitSmall /\ [][Next]_vars /\ WF_vars(Next)

(***************************************************************************)
(* Two runs of the compile-provision-scan pipeline on the same pattern and *)
(* the same input.  The second run compiles and provisions anew (handles   *)
(* with new pointer values) and reads the same lines again; what the code  *)
(* does not initialise keeps the value the first run left.                 *)
(***************************************************************************)
SecondRun ==
    /\ pc = "exited"
    /\ prev = <<>>
    /\ Len(args) > 0
    /\ prev' = <<[scans |-> scans, stdout |-> stdout, exitStatus |-> exitStatus,
                  handles |-> handles]>>
    /\ pc' = "compile"
    /\ database' = "null"
    /\ scratch' = "null"
    /\ handles' = [database |-> 0, scratch |-> 0, scratchDb |-> 0]
    /\ errStruct' = NoErr
    /\ lineNo' = 0
    /\ scans' = <<>>
    /\ calls' = <<>>
    /\ engineArgs' = <<>>
    /\ stdout' = <<>>
    /\ stderr' = <<>>
    /\ exitStatus' = -1
    /\ UNCHANGED <<args, stdin, pattern, line, matched, pending, delivered, cbRet,
                   lineLen, bufLen>>

NextTwoRuns ==
    \/ Next
    \/ SecondRun

SpecTwoRuns == InitSmall /\ [][NextTwoRuns]_vars

(***************************************************************************)
(* The length handed to hs_scan, for lines of any usize length.  The line  *)
(* is known by its length alone: its bytes are not represented.            *)
(***************************************************************************)
LenDigits == {0, 1, 65535}

LineLengths == {<<a, b, c, d>> : a \in LenDigits, b \in LenDigits,
                                 c \in LenDigits, d \in LenDigits}

InitLen ==
    /\ pc = "scan_line"
    /\ args = << <<"a">> >>
    /\ stdin = <<[ok |-> TRUE, text |-> <<>>]>>
    /\ pattern = <<"a">>
    /\ database = "live"
    /\ scratch = "live"
    /\ errStruct = NoErr
    /\ lineNo = 1
    /\ line = <<>>
    /\ lineLen \in LineLengths
    /\ matched = FALSE
    /\ pending = <<>>
    /\ delivered = 0
    /\ cbRet = 0
    /\ scans = <<>>
    /\ calls = <<"hs_compile", "hs_alloc_scratch">>
    /\ stdout = <<>>
    /\ stderr = <<>>
    /\ exitStatus = -1
    /\ handles = [database |-> 1, scratch |-> 1, scratchDb |-> 1]
    /\ engineArgs = <<[fn |-> "hs_alloc_scratch", db |-> 1, scratch |-> 0]>>
    /\ bufLen = <<0, 0>>
    /\ prev = <<>>

SpecLen == InitLen /\ [][ScanLineBegin]_vars

(***************************************************************************)
(* Properties                                                              *)
(***************************************************************************)
\* The lines of the scan_line calls that returned Ok(true), in call order.
RECURSIVE MatchedLines(_)
MatchedLines(h) ==
    IF h = <<>> THEN <<>>
    ELSE LET front == MatchedLines(SubSeq(h, 1, Len(h) - 1))
         IN  IF h[Len(h)].ret = "true" THEN Append(front, h[Len(h)].line) ELSE front

EndsWith(s, t) == Len(s) >= Len(t) /\ SubSeq(s, Len(s) - Len(t) + 1, Len(s)) = t

\* C1: whenever the process has exited after compile_database and
\* alloc_scratch both succeeded, the scratch has been released exactly once
\* and then the database exactly once.
C1_ReleasedOnEveryExit ==
    (pc = "exited" /\ database # "null" /\ scratch # "null") =>
        /\ Count(calls, "hs_free_scratch") = 1
        /\ Count(calls, "hs_free_database") = 1
        /\ EndsWith(calls, <<"hs_free_scratch", "hs_free_database">>)

\* C2: whenever the process has exited after compile_database succeeded and
\* alloc_scratch failed, hs_free_database has been called exactly once.
C2_HandleReleasedWhenAllocFails ==
    (pc = "exited" /\ database # "null" /\ scratch = "null") =>
        Count(calls, "hs_free_database") = 1

\* C3: the printed lines are exactly the lines for which scan_line returned
\* Ok(true), in input order, each once; the scanned lines are L1..Lk in
\* order, and a run that ends in success has scanned every line.
C3_PrintedIsMatchingSubsequence ==
    /\ stdout = MatchedLines(scans)
    /\ \A i \in 1..Len(scans) : stdin[i].ok /\ scans[i].line = stdin[i].text
    /\ (pc = "exited" /\ exitStatus = 0) => Len(scans) = Len(stdin)

C3_Witness ==
    /\ pc = "exited" /\ exitStatus = 0
    /\ Len(scans) = 3 /\ Len(stdout) = 2
    /\ stdout[1] # stdout[2]
    /\ scans[2].ret = "false"

\* C4 as claimed: within one scan call on_match is invoked at most once, and
\* once invoked it has recorded matched = true and returned non-zero.
C4_ReporterStopsAtFirstMatch ==
    /\ delivered <= 1
    /\ delivered >= 1 => (matched /\ cbRet # 0)

\* C4 as amended: on every match event on_match records matched = true and
\* returns 0 (continue), so within one scan call the reporter is invoked once
\* for every match event of the line: the events delivered and those still to
\* come add up to the line's events, and a scan that succeeded delivered all.
C4_ReporterContinuesAfterMatch ==
    /\ delivered >= 1 => (matched /\ cbRet = 0)
    /\ pc = "scanning" =>
           delivered + Len(pending) = Len(EngineMatchEvents(pattern, line))
    /\ \A i \in 1..Len(scans) :
           scans[i].rc = HS_SUCCESS =>
               scans[i].delivered = Len(EngineMatchEvents(pattern, scans[i].line))

C4_Witness ==
    \E i \in 1..Len(scans) : scans[i].rc = HS_SUCCESS /\ scans[i].delivered = 2

\* C5: for every line on which hs_scan reported success, scan_line returned
\* Ok(true) if and only if at least one match event was delivered during that
\* call, whether one event or several.
C5_ResultIffMatchEvent ==
    \A i \in 1..Len(scans) :
        scans[i].rc = HS_SUCCESS =>
            /\ scans[i].ret \in {"true", "false"}
            /\ (scans[i].ret = "true") <=> (scans[i].delivered >= 1)

C5_Witness ==
    \E i, j, k \in 1..Len(scans) :
        /\ scans[i].rc = HS_SUCCESS /\ scans[i].delivered = 1 /\ scans[i].ret = "true"
        /\ scans[j].rc = HS_SUCCESS /\ scans[j].delivered = 2 /\ scans[j].ret = "true"
        /\ scans[k].rc = HS_SUCCESS /\ scans[k].delivered = 0 /\ scans[k].ret = "false"

\* C6: when scan_line returned an error for line Lk, the run has ended there
\* with a non-zero exit status: Lk is the last line read and scanned, it is
\* not printed, and the output is exactly the matching lines of L1..L(k-1).
C6_ScanErrorAbortsRun ==
    \A k \in 1..Len(scans) :
        scans[k].ret = "err" =>
            /\ pc = "exited" /\ exitStatus > 0
            /\ k = Len(scans) /\ lineNo = k
            /\ Count(calls, "hs_scan") = k
            /\ stdout = MatchedLines(SubSeq(scans, 1, k - 1))

C6_Witness ==
    /\ Len(scans) = 2 /\ Len(stdin) = 3
    /\ scans[1].ret = "true" /\ scans[2].ret = "err" /\ scans[2].delivered >= 1
    /\ stdin[3].ok
    /\ stdout = <<scans[1].line>>
    /\ pc = "exited"

\* C7: a pattern with an embedded NUL byte is rejected before any engine
\* call: hs_compile is never invoked, no handle or workspace exists, no line
\* is read, scanned or printed, and the run ends in failure.
C7_NulPatternRejectedEarly ==
    (pc # "main" /\ \E i \in 1..Len(pattern) : pattern[i] = "NUL") =>
        /\ calls = <<>>
        /\ database = "null" /\ scratch = "null"
        /\ lineNo = 0 /\ scans = <<>> /\ stdout = <<>>
        /\ pc \in {"compile", "exited"}
        /\ pc = "exited" =>
               /\ exitStatus = 1
               /\ stderr = <<"compile pattern", "pattern contains interior NUL">>

C7_Witness ==
    /\ pc = "exited"
    /\ \E i \in 1..Len(pattern) : pattern[i] = "NUL"
    /\ Len(stdin) > 0

\* The engine rejected the pattern: hs_compile was called and left no handle.
CompileRejected == calls # <<>> /\ database = "null"

\* C8: when the engine rejects the pattern, compile_database reports the
\* engine's message (a generic one if there is none), has released the error
\* structure exactly once, and the run ends in failure with no handle, no
\* provisioning, no scan and no output.
C8_CompileErrorReported ==
    CompileRejected =>
        /\ calls = <<"hs_compile", "hs_free_compile_error">>
        /\ errStruct.ptr # "live"
        /\ stderr = <<"compile pattern", "Hyperscan compile error: ",
                      IF errStruct.ptr # "null" /\ errStruct.message # "null"
                      THEN errStruct.message ELSE "Unknown compile error">>
        /\ pc = "exited" /\ exitStatus = 1
        /\ scratch = "null" /\ lineNo = 0 /\ scans = <<>> /\ stdout = <<>>

C8_Witness ==
    /\ CompileRejected
    /\ \E i \in 1..Len(pattern) : pattern[i] = "["
    /\ errStruct = [ptr |-> "freed", message |-> "engine diagnostic"]
    /\ stderr[3] = "engine diagnostic"
    /\ Len(stdin) > 0

\* C9: started without a pattern argument, the program exits with a non-zero
\* status before compile_database: no engine call, no input read, no scan
\* and no output ever happen.
C9_MissingArgumentExits ==
    Len(args) = 0 =>
        /\ pc \in {"main", "exited"}
        /\ calls = <<>>
        /\ database = "null" /\ scratch = "null"
        /\ lineNo = 0 /\ scans = <<>> /\ stdout = <<>>
        /\ pc = "exited" => (exitStatus = 1 /\ stderr = <<"Usage">>)

C9_Witness == Len(args) = 0 /\ pc = "exited" /\ Len(stdin) > 0

\* C10: the handle is live whenever the workspace is live or a scan is in
\* progress; a scan runs only with both live; the handle is never released
\* before the workspace; every hs_scan call comes after hs_compile and
\* hs_alloc_scratch and before any release.
C10_HandleOutlivesWorkspace ==
    /\ (scratch = "live" \/ pc \in {"scan_line", "scanning"}) => database = "live"
    /\ pc \in {"scan_line", "scanning"} => scratch = "live"
    /\ database = "freed" => scratch = "freed"
    /\ scratch # "null" => database # "null"
    /\ \A i \in 1..Len(calls) :
           calls[i] = "hs_scan" =>
               /\ i > 2 /\ calls[1] = "hs_compile" /\ calls[2] = "hs_alloc_scratch"
               /\ \A j \in 1..i : calls[j] \notin {"hs_free_scratch", "hs_free_database"}
    /\ \A i \in 1..Len(calls) :
           calls[i] = "hs_free_database" =>
               \E j \in 1..(i - 1) : calls[j] = "hs_free_scratch"

C10_Witness ==
    /\ pc = "teardown"
    /\ scratch = "freed" /\ database = "live"
    /\ Count(calls, "hs_scan") >= 2

\* The entries of the argument history that belong to engine function f.
ArgsOf(f) == {i \in 1..Len(engineArgs) : engineArgs[i].fn = f}

\* C11: in any run hs_compile and hs_alloc_scratch are each called at most
\* once, the workspace is provisioned from the run's handle, and every
\* hs_scan call is given that handle and that workspace.
C11_CompiledAndProvisionedOnce ==
    /\ Count(calls, "hs_compile") <= 1
    /\ Count(calls, "hs_alloc_scratch") <= 1
    /\ \A i \in ArgsOf("hs_alloc_scratch") :
           engineArgs[i].db = handles.database /\ handles.database # 0
    /\ handles.scratch # 0 => handles.scratchDb = handles.database
    /\ \A i \in ArgsOf("hs_scan") :
           /\ engineArgs[i].db = handles.database /\ engineArgs[i].db # 0
           /\ engineArgs[i].scratch = handles.scratch /\ engineArgs[i].scratch # 0
           /\ handles.scratchDb = engineArgs[i].db
    /\ \A i, j \in ArgsOf("hs_scan") :
           engineArgs[i].db = engineArgs[j].db /\ engineArgs[i].scratch = engineArgs[j].scratch

C11_Witness ==
    /\ Cardinality(ArgsOf("hs_scan")) = 3
    /\ Count(calls, "hs_compile") = 1
    /\ Count(calls, "hs_alloc_scratch") = 1
    /\ pc = "exited" /\ exitStatus = 0

\* C12: every scan_line call starts from matched = false: while no match
\* event has been delivered in the current call the flag is false, and a line
\* without match event scanned right after a line that matched yields false.
C12_FreshFlagPerCall ==
    /\ (pc = "scanning" /\ delivered = 0) => ~matched
    /\ \A i \in 2..Len(scans) :
           (scans[i - 1].ret = "true" /\ scans[i].rc = HS_SUCCESS /\ scans[i].delivered = 0)
               => scans[i].ret = "false"

C12_Witness ==
    \E i \in 2..Len(scans) :
        /\ scans[i - 1].ret = "true" /\ scans[i - 1].delivered = 2
        /\ scans[i].rc = HS_SUCCESS /\ scans[i].delivered = 0 /\ scans[i].ret = "false"

\* C13: of two runs of the pipeline on the same pattern and input, each with
\* its own handle and workspace, every line that both runs scanned with
\* success has the same outcome in both, and two runs that both end in
\* success printed the same lines.
C13_TwoRunsAgree ==
    prev # <<>> =>
        /\ handles.database # 0 => handles.database # prev[1].handles.database
        /\ handles.scratch # 0 => handles.scratch # prev[1].handles.scratch
        /\ \A i \in 1..Len(scans) :
               (i <= Len(prev[1].scans) /\ scans[i].rc = HS_SUCCESS
                   /\ prev[1].scans[i].rc = HS_SUCCESS) =>
                   /\ scans[i].line = prev[1].scans[i].line
                   /\ scans[i].ret = prev[1].scans[i].ret
        /\ (pc = "exited" /\ exitStatus = 0 /\ prev[1].exitStatus = 0) =>
               stdout = prev[1].stdout

C13_Witness ==
    /\ prev # <<>>
    /\ pc = "exited" /\ exitStatus = 0 /\ prev[1].exitStatus = 0
    /\ handles.database = 2 /\ prev[1].handles.database = 1
    /\ Len(scans) = 2 /\ Len(stdout) = 1
    /\ scans[1].ret = "true" /\ scans[2].ret = "false"

\* Every step of the run succeeded: argument, compile, provision, reads, scans.
AllSucceeded ==
    /\ Len(args) > 0
    /\ database # "null" /\ scratch # "null"
    /\ \A i \in 1..Len(stdin) : stdin[i].ok
    /\ Len(scans) = Len(stdin)
    /\ \A i \in 1..Len(scans) : scans[i].rc = HS_SUCCESS

\* The run stopped at its first error: nothing failed before the last step taken.
StoppedAtFirstError ==
    /\ \A i \in 1..(lineNo - 1) : stdin[i].ok /\ scans[i].rc = HS_SUCCESS
    /\ \/ Len(args) = 0 /\ calls = <<>>
       \/ Len(args) > 0 /\ database = "null" /\ lineNo = 0
       \/ database # "null" /\ scratch = "null" /\ lineNo = 0
       \/ /\ scratch # "null" /\ lineNo >= 1
          /\ ~stdin[lineNo].ok /\ Len(scans) = lineNo - 1
       \/ /\ scratch # "null" /\ lineNo >= 1
          /\ stdin[lineNo].ok /\ Len(scans) = lineNo /\ scans[lineNo].rc # HS_SUCCESS

\* C14: the run terminates; it ends in success exactly when every step
\* succeeded and otherwise in failure at the first error; on an empty input
\* a provisioned run prints nothing and ends in success.
C14_TerminatesWithStatus ==
    /\ <>(pc = "exited")
    /\ [](pc = "exited" =>
            /\ exitStatus \in {0, 1}
            /\ exitStatus = 0 <=> AllSucceeded
            /\ exitStatus = 1 => StoppedAtFirstError
            /\ (Len(stdin) = 0 /\ scratch # "null") => (exitStatus = 0 /\ stdout = <<>>))

C14_Witness ==
    /\ pc = "exited"
    /\ Len(stdin) = 0 /\ scratch = "freed" /\ database = "freed"
    /\ exitStatus = 0 /\ stdout = <<>>

\* C15: the length scan_line passes to hs_scan is the exact byte length of
\* the line, also for a line whose length does not fit in 32 bits.
C15_ExactLengthPassed ==
    pc = "scanning" => <<bufLen[1], bufLen[2], 0, 0>> = lineLen

\* C16: every engine resource is released at most once, and only one that a
\* successful compile or provision of this run produced: the release calls
\* are given the non-null pointers main holds, and the error structure is
\* freed at most once.
C16_ReleasedAtMostOnceAfterAcquire ==
    /\ Count(calls, "hs_free_scratch") <= 1
    /\ Count(calls, "hs_free_database") <= 1
    /\ Count(calls, "hs_free_compile_error") <= 1
    /\ \A i \in ArgsOf("hs_free_scratch") :
           /\ engineArgs[i].scratch = handles.scratch /\ handles.scratch # 0
           /\ \E j \in 1..(i - 1) : engineArgs[j].fn = "hs_alloc_scratch"
    /\ \A i \in ArgsOf("hs_free_database") :
           /\ engineArgs[i].db = handles.database /\ handles.database # 0
           /\ calls[1] = "hs_compile"
    /\ Count(calls, "hs_free_scratch") = 1 <=> scratch = "freed"
    /\ Count(calls, "hs_free_database") = 1 <=> database = "freed"

C16_Witness ==
    /\ pc = "exited"
    /\ Count(calls, "hs_free_scratch") = 1
    /\ Count(calls, "hs_free_database") = 1
    /\ Len(scans) >= 1

\* C17: with an engine that answers HS_SCAN_TERMINATED when the callback
\* returned non-zero and success otherwise, a line with a match event never
\* makes scan_line fail: after a match event the engine cannot answer
\* HS_SCAN_TERMINATED, and every scan with a match event that the engine did
\* not fail on its own returned Ok(true) and its line was printed.
C17_MatchNeverAbortsRun ==
    /\ (pc = "scanning" /\ delivered >= 1) => HS_SCAN_TERMINATED \notin EngineScanResults
    /\ \A i \in 1..Len(scans) :
           (scans[i].delivered >= 1 /\ scans[i].rc \notin EngineScanErrors) =>
               /\ scans[i].ret = "true"
               /\ \E k \in 1..Len(stdout) : stdout[k] = scans[i].line

C17_Witness ==
    /\ Len(scans) = 2
    /\ scans[1].delivered = 2 /\ scans[1].ret = "true"
    /\ scans[2].delivered = 1 /\ scans[2].ret = "true"
    /\ stdout = <<scans[1].line, scans[2].line>>
    /\ pc = "loop"

====
